---- MODULE Spec2Model ----
(***************************************************************************)
(* A model of the p5-physics core: Body / DrawableBody (kinematics, edge   *)
(* handling, bounding boxes, collision detection and response) and World   *)
(* (the collection of bodies and the simulation step).                     *)
(*                                                                         *)
(* Numbers.  The program computes in IEEE doubles.  The model computes in  *)
(* exact rationals <<n, d>> (d > 0, lowest terms), so rounding is not      *)
(* modelled; every value the model draws is a small rational.              *)
(***************************************************************************)
EXTENDS Integers, Sequences, FiniteSets, TLC

\* ------------------------------------------------------------ rationals

Abs(n) == IF n < 0 THEN -n ELSE n

RECURSIVE GCD(_, _)
GCD(a, b) == IF b = 0 THEN a ELSE GCD(b, a % b)

\* The rational n/d (d # 0) in lowest terms with a positive denominator.
Rat(n, d) ==
  LET s == IF d < 0 THEN -1 ELSE 1
      g == GCD(Abs(n), Abs(d))
  IN  <<(s * n) \div g, (s * d) \div g>>

I(n) == <<n, 1>>

\* Sums go over the least common denominator and products cancel crosswise first,
\* which keeps the intermediate integers small.
RNeg(p)    == <<-p[1], p[2]>>
RAdd(p, q) ==
  LET g == GCD(p[2], q[2])
  IN  Rat(p[1] * (q[2] \div g) + q[1] * (p[2] \div g), (p[2] \div g) * q[2])
RSub(p, q) == RAdd(p, RNeg(q))
RMul(p, q) ==
  LET g1 == GCD(Abs(p[1]), q[2])
      g2 == GCD(Abs(q[1]), p[2])
  IN  <<(p[1] \div g1) * (q[1] \div g2), (p[2] \div g2) * (q[2] \div g1)>>
RDiv(p, q) == RMul(p, Rat(q[2], q[1]))
RLt(p, q)  ==
  LET g == GCD(p[2], q[2]) IN p[1] * (q[2] \div g) < q[1] * (p[2] \div g)
RLe(p, q)  ==
  LET g == GCD(p[2], q[2]) IN p[1] * (q[2] \div g) <= q[1] * (p[2] \div g)

\* A JavaScript number in general: a finite number <<n, d>>, or one of the three
\* non-finite values; undefined is the absent argument.
NaN == <<0, 0>>
PosInfinity == <<1, 0>>
NegInfinity == <<-1, 0>>
Undefined == <<>>
isNaN(val) == val = NaN
isFinite(val) == val[2] # 0

\* The operator < on JavaScript numbers: false whenever an operand is NaN.
NumLt(p, q) ==
  IF isNaN(p) \/ isNaN(q) \/ p = q THEN FALSE
  ELSE IF p = NegInfinity \/ q = PosInfinity THEN TRUE
  ELSE IF p = PosInfinity \/ q = NegInfinity THEN FALSE
  ELSE RLt(p, q)

\* ------------------------------------------------- p5.Vector (the part used)

Vec(x, y)   == [x |-> x, y |-> y]
IVec(x, y)  == Vec(I(x), I(y))
ZeroVec     == IVec(0, 0)
VAdd(u, v)  == Vec(RAdd(u.x, v.x), RAdd(u.y, v.y))
VSub(u, v)  == Vec(RSub(u.x, v.x), RSub(u.y, v.y))
VMult(u, k) == Vec(RMul(u.x, k), RMul(u.y, k))
VDiv(u, k)  == Vec(RDiv(u.x, k), RDiv(u.y, k))
\* mag() > 0: the square root of x^2 + y^2 is positive iff the vector is not zero.
VMagPositive(u) == u # ZeroVec

\* ------------------------------------------------------------- bounds

NBodies  == 3      \* bodies constructed
NWorlds  == 2      \* World instances
WorldSize == 4     \* width and height of every World (the program's default is 400)
MaxSteps == 2      \* World.update calls in one behaviour of Spec
MaxCollides == 1   \* Body.collide calls in one behaviour of SpecCollide
MaxWorldOps == 4   \* operations in one behaviour of SpecWorld
MaxBodyOps == 3    \* operations in one behaviour of SpecBody
MaxCoefficientCalls == 3 \* setter calls in one behaviour of SpecCoefficient
MaxShapeOps == 3   \* operations in one behaviour of SpecShape
MaxFrictionOps == 3 \* operations in one behaviour of SpecFriction

Bodies == 1 .. NBodies
Worlds == 1 .. NWorlds
NoWorld == 0       \* _world = null
NullG == <<>>      \* World.G = null

\* World(x = 0, y = 0, ...): the origin every World of the model is built with.
WorldX == 0
WorldY == 0

EdgeModes == {"None", "Hold", "Wrap", "Bounce"}
DrawModes == {"Point", "Ellipse", "Rectangle"}

\* ------------------------------------------------------------- state

VARIABLES
  bodies,       \* World.bodies: for each World the array of its bodies
  edgeMode,     \* World.edgeMode
  G,            \* World.G: <<the gravity vector>>, or <<>> for null
  doCollisions, \* World.doCollisions
  bworld,       \* Body._world: the back-reference (NoWorld when null)
  pos, vel, acc,\* Body._pos, _vel, _acc
  mass, cr, mu, \* Body._mass, _cr and the friction coefficient (the field named by the
                \* Greek letter mu)
  static, solid,\* Body.static, Body.solid
  cbOnUpdate,   \* the value Body.cbOnUpdate() returns
  mode, bw, bh, \* DrawableBody._mode, Body._w, Body._h
  bb,           \* DrawableBody._bb
  path, oPath,  \* DrawableBody._path, _oPath: sequences of vertices <<x, y>>
  op,           \* the last operation performed, its arguments and what it returned
  calls,        \* the calls of DrawableBody.collision and Body.collide made by the
                \* last World.update, in order
  removed,      \* the pairs <<w, body>> for which World.remove(body) on w returned
                \* true with no w.addBody(body) since
  steps,        \* operations performed so far
  forecast      \* for each World the positions and velocities that its coming
                \* World.update calls give when run with the friction coefficients
                \* the bodies had before the last coefficientOfFriction calls

vars == <<bodies, edgeMode, G, doCollisions, bworld, pos, vel, acc, mass, cr, mu,
          static, solid, cbOnUpdate, mode, bw, bh, bb, path, oPath, op, calls,
          removed, steps, forecast>>

worldVars == <<bodies, edgeMode, G, doCollisions>>
propVars  == <<mass, cr, mu, static, solid, cbOnUpdate, mode, bw, bh, oPath>>

\* The part of the heap that update(), edges() and collide() write.
Heap == [pos |-> pos, vel |-> vel, acc |-> acc, bb |-> bb, path |-> path]

\* ------------------------------------------------------ Body: collide

\* Body.collide without its test of a.solid and b.solid.
CollideUnguarded(H, a, b) ==
  IF static[a]
  THEN [H EXCEPT !.vel[b] = VMult(H.vel[b], RNeg(cr[b]))]
  ELSE IF static[b]
  THEN [H EXCEPT !.vel[b] = VMult(H.vel[a], RNeg(cr[a]))]
  ELSE LET a_m  == mass[a]
           b_m  == mass[b]
           a_mu == VMult(H.vel[a], a_m)
           b_mu == VMult(H.vel[b], b_m)
           velA == VDiv(VAdd(VAdd(VMult(VMult(VSub(H.vel[b], H.vel[a]), b_m), cr[a]),
                                  a_mu), b_mu), RAdd(a_m, b_m))
           velB == VDiv(VAdd(VAdd(VMult(VMult(VSub(H.vel[a], H.vel[b]), a_m), cr[b]),
                                  a_mu), b_mu), RAdd(a_m, b_m))
       IN  [H EXCEPT !.vel = [[@ EXCEPT ![a] = velA] EXCEPT ![b] = velB]]

\* Body.collide computing b's velocity after a's has been written: the variant
\* the general case must not be.
CollideSequential(H, a, b) ==
  IF solid[a] /\ solid[b] /\ ~static[a] /\ ~static[b]
  THEN LET a_m  == mass[a]
           b_m  == mass[b]
           velA == VDiv(VAdd(VAdd(VMult(VMult(VSub(H.vel[b], H.vel[a]), b_m), cr[a]),
                                  VMult(H.vel[a], a_m)), VMult(H.vel[b], b_m)),
                        RAdd(a_m, b_m))
           velB == VDiv(VAdd(VAdd(VMult(VMult(VSub(velA, H.vel[b]), a_m), cr[b]),
                                  VMult(velA, a_m)), VMult(H.vel[b], b_m)),
                        RAdd(a_m, b_m))
       IN  [H EXCEPT !.vel = [[@ EXCEPT ![a] = velA] EXCEPT ![b] = velB]]
  ELSE H

\* Body.collide(a, b), applied to heap H.
Collide(H, a, b) ==
  IF solid[a] /\ solid[b]
  THEN IF static[a]
       THEN [H EXCEPT !.vel[b] = VMult(H.vel[b], RNeg(cr[b]))]
       ELSE IF static[b]
       THEN [H EXCEPT !.vel[b] = VMult(H.vel[a], RNeg(cr[a]))]
       ELSE LET a_m  == mass[a]
                b_m  == mass[b]
                a_mu == VMult(H.vel[a], a_m)
                b_mu == VMult(H.vel[b], b_m)
                velA == VDiv(VAdd(VAdd(VMult(VMult(VSub(H.vel[b], H.vel[a]), b_m),
                                             cr[a]), a_mu), b_mu),
                             RAdd(a_m, b_m))
                velB == VDiv(VAdd(VAdd(VMult(VMult(VSub(H.vel[a], H.vel[b]), a_m),
                                             cr[b]), a_mu), b_mu),
                             RAdd(a_m, b_m))
            IN  [H EXCEPT !.vel = [[@ EXCEPT ![a] = velA] EXCEPT ![b] = velB]]
  ELSE H

\* ------------------------------------------- DrawableBody: bounding box

\* The least and the greatest of a non-empty set of finite numbers.
MinOf(S) == CHOOSE x \in S : \A y \in S : RLe(x, y)
MaxOf(S) == CHOOSE x \in S : \A y \in S : RLe(y, x)

\* The switch of DrawableBody._calcBoundingBox() for mode m, position p, size w x h
\* and path pth; over an empty path the loop leaves topleft and bottomright at the
\* infinities they start from.
BoundingBox(m, p, w, h, pth) ==
  CASE m = "Point"     -> [pos |-> p, w |-> I(1), h |-> I(1)]
    [] m = "Ellipse"   -> [pos |-> Vec(RSub(p.x, RDiv(w, I(2))), RSub(p.y, RDiv(h, I(2)))),
                           w |-> w, h |-> h]
    [] m = "Rectangle" -> [pos |-> p, w |-> w, h |-> h]
    [] m = "Path" ->
         IF pth = <<>>
         THEN [pos |-> Vec(PosInfinity, PosInfinity), w |-> NegInfinity, h |-> NegInfinity]
         ELSE LET xs == {pth[i][1] : i \in 1 .. Len(pth)}
                  ys == {pth[i][2] : i \in 1 .. Len(pth)}
              IN  [pos |-> Vec(MinOf(xs), MinOf(ys)),
                   w |-> RSub(MaxOf(xs), MinOf(xs)),
                   h |-> RSub(MaxOf(ys), MinOf(ys))]

\* DrawableBody._calcBoundingBox() of body b at position p.
CalcBoundingBox(b, p) == BoundingBox(mode[b], p, bw[b], bh[b], path[b])

\* The cbChangePos hook of a DrawableBody: in Path mode the path is rebuilt from
\* _oPath at the new position p, otherwise the path pth stays.
CbChangePos(b, p, pth) ==
  IF mode[b] = "Path"
  THEN [i \in 1 .. Len(oPath[b]) |->
          <<RAdd(oPath[b][i][1], p.x), RAdd(oPath[b][i][2], p.y)>>]
  ELSE pth

\* The setters pos(), posX(), posY() on heap H: the write and the hook.
SetPos(H, b, p) == [H EXCEPT !.pos[b] = p, !.path[b] = CbChangePos(b, p, @)]

\* ------------------------------------------------ Body: update, applyForce

\* The condition of Body.update() without the comparison with false: a static body
\* is integrated when its hook returns true.
IntegratesHookTrue(b) == ~static[b] \/ cbOnUpdate[b] = TRUE

\* Body.update() without its test: every body integrates.
IntegratesAlways(b) == TRUE

\* Whether Body.update() integrates body b: !this.static || this.cbOnUpdate() === false.
Integrates(b) == ~static[b] \/ cbOnUpdate[b] = FALSE

\* Body.update() that leaves the acceleration as it is.
BodyUpdateKeepAcc(H, b) ==
  IF Integrates(b)
  THEN LET v == VAdd(H.vel[b], H.acc[b])
       IN  [SetPos(H, b, VAdd(H.pos[b], v)) EXCEPT !.vel[b] = v]
  ELSE H

\* Body.update(): the heap after it.  It returns Integrates(b).
BodyUpdate(H, b) ==
  IF Integrates(b)
  THEN LET v == VAdd(H.vel[b], H.acc[b])
       IN  [SetPos(H, b, VAdd(H.pos[b], v)) EXCEPT !.vel[b] = v, !.acc[b] = ZeroVec]
  ELSE H

\* DrawableBody.update(): super.update(), then the bounding box if it returned true.
DrawableUpdate(H, b) ==
  LET H1 == BodyUpdate(H, b)
  IN  IF Integrates(b)
      THEN [H1 EXCEPT !.bb[b] = BoundingBox(mode[b], H1.pos[b], bw[b], bh[b],
                                            H1.path[b])]
      ELSE H1

\* Body.applyForce(force) without the division by the mass.
BodyApplyForceUndivided(H, b, force) ==
  IF ~static[b]
  THEN [H EXCEPT !.acc[b] = VAdd(H.acc[b], force)]
  ELSE H

\* Body.applyForce(force) with the default cbOnApply (the identity).
BodyApplyForce(H, b, force) ==
  IF ~static[b]
  THEN [H EXCEPT !.acc[b] = VAdd(H.acc[b], VDiv(force, mass[b]))]
  ELSE H

\* ------------------------------------------------------- Body: edges

WMinX == I(WorldX)
WMaxX == I(WorldX + WorldSize)
WMinY == I(WorldY)
WMaxY == I(WorldY + WorldSize)

\* One axis of the Hold case: two independent tests, the second on the new value.
HoldAxis(p, lo, hi) ==
  LET p1 == IF RLt(p, lo) THEN lo ELSE p
  IN  IF RLt(hi, p1) THEN hi ELSE p1

\* The Wrap case sending a body to the edge it left by instead of the opposite one.
WrapAxisSameSide(p, lo, hi) ==
  IF RLt(p, lo) THEN lo ELSE IF RLt(hi, p) THEN hi ELSE p

\* One axis of the Wrap case.
WrapAxis(p, lo, hi) ==
  IF RLt(p, lo) THEN hi ELSE IF RLt(hi, p) THEN lo ELSE p

\* The Bounce case without the change of sign of the velocity.
BounceAxisNoFlip(p, v, lo, hi) ==
  IF RLt(p, lo) THEN <<lo, v>>
  ELSE IF RLt(hi, p) THEN <<hi, v>>
  ELSE <<p, v>>

\* One axis of the Bounce case: <<position, velocity>>.
BounceAxis(p, v, lo, hi) ==
  IF RLt(p, lo) THEN <<lo, RNeg(v)>>
  ELSE IF RLt(hi, p) THEN <<hi, RNeg(v)>>
  ELSE <<p, v>>

\* Body.edges() that leaves a static body where it is.
BodyEdgesNonStatic(H, b) ==
  LET W == bworld[b]
      p == H.pos[b]
      v == H.vel[b]
  IN  CASE edgeMode[W] = "None" \/ static[b] -> H
        [] edgeMode[W] = "Hold" ->
             SetPos(H, b, Vec(HoldAxis(p.x, WMinX, WMaxX),
                              HoldAxis(p.y, WMinY, WMaxY)))
        [] edgeMode[W] = "Wrap" ->
             SetPos(H, b, Vec(WrapAxis(p.x, WMinX, WMaxX),
                              WrapAxis(p.y, WMinY, WMaxY)))
        [] edgeMode[W] = "Bounce" ->
             LET bx == BounceAxis(p.x, v.x, WMinX, WMaxX)
                 by == BounceAxis(p.y, v.y, WMinY, WMaxY)
             IN  [SetPos(H, b, Vec(bx[1], by[1])) EXCEPT !.vel[b] = Vec(bx[2], by[2])]

\* Body.edges(): W is the body's own _world (which must not be null).
BodyEdges(H, b) ==
  LET W == bworld[b]
      p == H.pos[b]
      v == H.vel[b]
  IN  CASE edgeMode[W] = "None" -> H
        [] edgeMode[W] = "Hold" ->
             SetPos(H, b, Vec(HoldAxis(p.x, WMinX, WMaxX),
                              HoldAxis(p.y, WMinY, WMaxY)))
        [] edgeMode[W] = "Wrap" ->
             SetPos(H, b, Vec(WrapAxis(p.x, WMinX, WMaxX),
                              WrapAxis(p.y, WMinY, WMaxY)))
        [] edgeMode[W] = "Bounce" ->
             LET bx == BounceAxis(p.x, v.x, WMinX, WMaxX)
                 by == BounceAxis(p.y, v.y, WMinY, WMaxY)
             IN  [SetPos(H, b, Vec(bx[1], by[1])) EXCEPT !.vel[b] = Vec(bx[2], by[2])]

\* ------------------------------------------- DrawableBody: collision

\* Math.floor of a rational.
Floor(p) == p[1] \div p[2]

RSq(p) == RMul(p, p)
RAbs(p) == <<Abs(p[1]), p[2]>>
Dist2(x1, y1, x2, y2) == RAdd(RSq(RSub(x1, x2)), RSq(RSub(y1, y2)))

\* The p5.collide2D tests that DrawableBody.collision calls.
collideRectRect(x, y, w, h, x2, y2, w2, h2) ==
  /\ RLe(x2, RAdd(x, w))
  /\ RLe(x, RAdd(x2, w2))
  /\ RLe(y2, RAdd(y, h))
  /\ RLe(y, RAdd(y2, h2))

\* dist(x, y, x2, y2) <= d/2 + d2/2, compared as squares (both sides are >= 0).
collideCircleCircle(x, y, d, x2, y2, d2) ==
  LET r == RAdd(RDiv(d, I(2)), RDiv(d2, I(2)))
  IN  RLe(I(0), r) /\ RLe(Dist2(x, y, x2, y2), RSq(r))

collideRectCircle(rx, ry, rw, rh, cx, cy, diameter) ==
  LET testX == IF RLt(cx, rx) THEN rx
               ELSE IF RLt(RAdd(rx, rw), cx) THEN RAdd(rx, rw) ELSE cx
      testY == IF RLt(cy, ry) THEN ry
               ELSE IF RLt(RAdd(ry, rh), cy) THEN RAdd(ry, rh) ELSE cy
      r     == RDiv(diameter, I(2))
  IN  RLe(I(0), r) /\ RLe(Dist2(cx, cy, testX, testY), RSq(r))

\* |yy| <= ry * sqrt(|rx^2 - xx^2|) / rx, compared as squares; rx = 0 gives NaN, so false.
collidePointEllipse(x, y, cx, cy, dx, dy) ==
  LET rx == RDiv(dx, I(2))
      ry == RDiv(dy, I(2))
      xx == RSub(x, cx)
      yy == RSub(y, cy)
  IN  IF \/ RLt(RAdd(cx, rx), x) \/ RLt(x, RSub(cx, rx))
         \/ RLt(RAdd(cy, ry), y) \/ RLt(y, RSub(cy, ry))
      THEN FALSE
      ELSE /\ rx # I(0)
           /\ RLe(I(0), RDiv(ry, rx))
           /\ RLe(RSq(yy), RDiv(RMul(RSq(ry), RAbs(RSub(RSq(rx), RSq(xx)))), RSq(rx)))

collidePointRect(pointX, pointY, x, y, xW, yW) ==
  /\ RLe(x, pointX) /\ RLe(pointX, RAdd(x, xW))
  /\ RLe(y, pointY) /\ RLe(pointY, RAdd(y, yW))

\* The broad phase of DrawableBody.collision(a, b): the stored bounding boxes.
BaseCollide(H, a, b) ==
  collideRectRect(H.bb[a].pos.x, H.bb[a].pos.y, H.bb[a].w, H.bb[a].h,
                  H.bb[b].pos.x, H.bb[b].pos.y, H.bb[b].w, H.bb[b].h)

\* The narrow phase of DrawableBody.collision(a, b), dispatched on the two modes.
NarrowCollide(H, a, b) ==
  LET pa == H.pos[a]
      pb == H.pos[b]
      ma == mode[a]
      mb == mode[b]
  IN  CASE ma = "Point" /\ mb = "Point" ->
             Floor(pa.x) = Floor(pb.x) /\ Floor(pa.y) = Floor(pb.y)
        [] ma = "Ellipse" /\ mb = "Ellipse" ->
             collideCircleCircle(pa.x, pa.y, bw[a], pb.x, pb.y, bw[b])
        [] ma = "Rectangle" /\ mb = "Rectangle" ->
             collideRectRect(pa.x, pa.y, bw[a], bh[a], pb.x, pb.y, bw[b], bh[b])
        [] ma = "Rectangle" /\ mb = "Ellipse" ->
             collideRectCircle(pa.x, pa.y, bw[a], bh[a], pb.x, pb.y, bw[b])
        [] ma = "Ellipse" /\ mb = "Rectangle" ->
             collideRectCircle(pb.x, pb.y, bw[b], bh[b], pa.x, pa.y, bw[a])
        [] ma = "Point" /\ mb = "Ellipse" ->
             collidePointEllipse(pa.x, pa.y, pb.x, pb.y, bw[b], bh[b])
        [] ma = "Ellipse" /\ mb = "Point" ->
             collidePointEllipse(pb.x, pb.y, pa.x, pa.y, bw[a], bh[a])
        [] ma = "Point" /\ mb = "Rectangle" ->
             collidePointRect(pa.x, pa.y, pb.x, pb.y, bw[b], bh[b])
        [] ma = "Rectangle" /\ mb = "Point" ->
             collidePointRect(pb.x, pb.y, pa.x, pa.y, bw[a], bh[a])

\* DrawableBody.collision without its broad phase: the shapes are always tested.
CollisionNoBroadPhase(H, a, b) == [ret |-> NarrowCollide(H, a, b), narrow |-> TRUE]

\* DrawableBody.collision(a, b): what it returns, and whether it evaluated a
\* narrow-phase test on the way (the branch of if (baseCollide) it took).
Collision(H, a, b) ==
  IF BaseCollide(H, a, b)
  THEN [ret |-> NarrowCollide(H, a, b), narrow |-> TRUE]
  ELSE [ret |-> FALSE, narrow |-> FALSE]

\* ------------------------------------------------------------- World

Range(seq) == {seq[i] : i \in 1 .. Len(seq)}

\* Array.indexOf: the first index of b in seq, 0 when absent (JavaScript's -1).
IndexOf(seq, b) ==
  IF b \in Range(seq) THEN CHOOSE i \in 1 .. Len(seq) :
                             seq[i] = b /\ \A j \in 1 .. i - 1 : seq[j] # b
  ELSE 0

\* Array.splice(i, 1).
Splice(seq, i) == SubSeq(seq, 1, i - 1) \o SubSeq(seq, i + 1, Len(seq))

\* The body of the first loop with the edge policy applied before update().
IntegrateBodyEdgesFirst(H, w, b) ==
  LET H1 == IF G[w] # NullG THEN BodyApplyForce(H, b, VMult(G[w][1], mass[b])) ELSE H
      H2 == IF edgeMode[w] # "None" THEN BodyEdges(H1, b) ELSE H1
  IN  DrawableUpdate(H2, b)

\* The first loop of World.update on one body: gravity, update, edges.
IntegrateBody(H, w, b) ==
  LET H1 == IF G[w] # NullG THEN BodyApplyForce(H, b, VMult(G[w][1], mass[b])) ELSE H
      H2 == DrawableUpdate(H1, b)
  IN  IF edgeMode[w] # "None" THEN BodyEdges(H2, b) ELSE H2

\* this.bodies.forEach(body => ...): the bodies from index i on, in array order.
RECURSIVE IntegrateFrom(_, _, _)
IntegrateFrom(H, w, i) ==
  IF i > Len(bodies[w]) THEN H
  ELSE IntegrateFrom(IntegrateBody(H, w, bodies[w][i]), w, i + 1)

\* doneCollision that finds a pair only in the order it was recorded in.
doneCollisionOrdered(calculatedCollisions, a, b) ==
  \E c \in Range(calculatedCollisions) : c.a = a /\ c.b = b

\* doneCollision(a, b) over calculatedCollisions.
doneCollision(calculatedCollisions, a, b) ==
  \E c \in Range(calculatedCollisions) :
    (c.a = a /\ c.b = b) \/ (c.a = b /\ c.b = a)

\* The inner loop with the four commented-out lines of World.update enabled:
\* after Body.collide each body of the pair is given the other's friction force,
\* taken against its velocity with the size mu * mass.
SweepPairFriction(S, w, bodyA, bodyB) ==
  IF bodyA # bodyB /\ ~doneCollision(S.done, bodyA, bodyB)
  THEN LET called  == Collision(S.H, bodyA, bodyB)
           collide == called.ret
           tested  == [fn |-> "collision", a |-> bodyA, b |-> bodyB,
                       narrow |-> called.narrow, ret |-> collide,
                       boxes |-> <<S.H.bb[bodyA], S.H.bb[bodyB]>>,
                       before |-> <<>>, after |-> <<>>]
       IN  IF collide /\ VMagPositive(VSub(S.H.vel[bodyA], S.H.vel[bodyB]))
           THEN LET H2 == Collide(S.H, bodyA, bodyB)
                    FrA == VMult(H2.vel[bodyB], RNeg(RMul(mu[bodyA], mass[bodyB])))
                    FrB == VMult(H2.vel[bodyA], RNeg(RMul(mu[bodyB], mass[bodyA])))
                    H3 == BodyApplyForce(BodyApplyForce(H2, bodyA, FrA), bodyB, FrB)
                IN  [H    |-> H3,
                     done |-> Append(S.done, [a |-> bodyA, b |-> bodyB]),
                     log  |-> S.log \o
                              <<tested,
                                [fn |-> "collide", a |-> bodyA, b |-> bodyB,
                                 narrow |-> FALSE, ret |-> FALSE, boxes |-> <<>>,
                                 before |-> <<S.H.vel[bodyA], S.H.vel[bodyB]>>,
                                 after  |-> <<H2.vel[bodyA], H2.vel[bodyB]>>]>>]
           ELSE [S EXCEPT !.log = Append(@, tested)]
  ELSE S

\* The body of the inner loop of the sweep for the ordered pair (bodyA, bodyB).  S
\* holds the heap, calculatedCollisions and the log of calls made.
SweepPair(S, w, bodyA, bodyB) ==
  IF bodyA # bodyB /\ ~doneCollision(S.done, bodyA, bodyB)
  THEN LET called  == Collision(S.H, bodyA, bodyB)
           collide == called.ret
           tested  == [fn |-> "collision", a |-> bodyA, b |-> bodyB,
                       narrow |-> called.narrow, ret |-> collide,
                       boxes |-> <<S.H.bb[bodyA], S.H.bb[bodyB]>>,
                       before |-> <<>>, after |-> <<>>]
       IN  IF collide /\ VMagPositive(VSub(S.H.vel[bodyA], S.H.vel[bodyB]))
           THEN LET H2 == Collide(S.H, bodyA, bodyB)
                IN  [H    |-> H2,
                     done |-> Append(S.done, [a |-> bodyA, b |-> bodyB]),
                     log  |-> S.log \o
                              <<tested,
                                [fn |-> "collide", a |-> bodyA, b |-> bodyB,
                                 narrow |-> FALSE, ret |-> FALSE, boxes |-> <<>>,
                                 before |-> <<S.H.vel[bodyA], S.H.vel[bodyB]>>,
                                 after  |-> <<H2.vel[bodyA], H2.vel[bodyB]>>]>>]
           ELSE [S EXCEPT !.log = Append(@, tested)]
  ELSE S

\* The second pair of loops of World.update; k counts the ordered index pairs.
RECURSIVE SweepFrom(_, _, _)
SweepFrom(S, w, k) ==
  LET n == Len(bodies[w])
      bodyA == bodies[w][(k \div n) + 1]
      bodyB == bodies[w][(k % n) + 1]
  IN  IF k >= n * n THEN S
      ELSE IF doCollisions[w] /\ solid[bodyA]
      THEN SweepFrom(SweepPair(S, w, bodyA, bodyB), w, k + 1)
      ELSE SweepFrom(S, w, k + 1)

\* World.update(): the state after the first loop, then after the sweep.
Integrated(w) == IntegrateFrom(Heap, w, 1)
Swept(w) == SweepFrom([H |-> Integrated(w), done |-> <<>>, log |-> <<>>], w, 0)

\* The heap after one World.update of World w run from the heap H.
UpdateHeap(H, w) ==
  SweepFrom([H |-> IntegrateFrom(H, w, 1), done |-> <<>>, log |-> <<>>], w, 0).H

\* The positions and velocities after each of k calls of World.update of World w
\* run from the heap H, the first call first.
RECURSIVE UpdateRun(_, _, _)
UpdateRun(H, w, k) ==
  IF k = 0 THEN <<>>
  ELSE LET H1 == UpdateHeap(H, w)
       IN  <<[pos |-> H1.pos, vel |-> H1.vel]>> \o UpdateRun(H1, w, k - 1)

NoForecast == [w \in Worlds |-> <<>>]

\* ------------------------------------------------------------ actions

\* arg is the value a coefficient setter was called with, <<>> for every other call.
Op(name, w, a, b, ret) ==
  [name |-> name, w |-> w, a |-> a, b |-> b, ret |-> ret, arg |-> <<>>]

WriteHeap(H) ==
  /\ pos' = H.pos
  /\ vel' = H.vel
  /\ acc' = H.acc
  /\ bb'  = H.bb
  /\ path' = H.path

\* World.addBody(body)
addBody(w, body) ==
  /\ bworld' = [bworld EXCEPT ![body] = w]
  /\ bodies' = [bodies EXCEPT ![w] = Append(@, body)]
  /\ op' = Op("addBody", w, body, 0, "this")
  /\ removed' = removed \ {<<w, body>>}
  /\ UNCHANGED <<edgeMode, G, doCollisions, pos, vel, acc, bb, path, propVars, calls>>

\* World.remove(body)
remove(w, body) ==
  LET i == IndexOf(bodies[w], body)
  IN  /\ bodies' = IF i # 0 THEN [bodies EXCEPT ![w] = Splice(@, i)] ELSE bodies
      /\ op' = Op("remove", w, body, 0, IF i # 0 THEN "true" ELSE "false")
      /\ removed' = IF i # 0 THEN removed \cup {<<w, body>>} ELSE removed
      /\ UNCHANGED <<edgeMode, G, doCollisions, bworld, pos, vel, acc, bb, path,
                     propVars, calls>>

\* World.update()
update(w) ==
  /\ \E S \in {Swept(w)} : WriteHeap(S.H) /\ calls' = S.log
  /\ op' = Op("update", w, 0, 0, "undefined")
  /\ UNCHANGED <<worldVars, bworld, propVars, removed>>

\* Body.collide(a, b), called directly
collide(a, b) ==
  /\ a # b
  /\ \E H \in {Collide(Heap, a, b)} : WriteHeap(H)
  /\ op' = Op("collide", 0, a, b, "undefined")
  /\ UNCHANGED <<worldVars, bworld, propVars, calls, removed>>

\* DrawableBody.update(), called directly; it returns nothing
bodyUpdate(b) ==
  /\ \E H \in {DrawableUpdate(Heap, b)} : WriteHeap(H)
  /\ op' = Op("Body.update", 0, b, 0, "undefined")
  /\ UNCHANGED <<worldVars, bworld, propVars, calls, removed>>

\* Body.update() of the base class, called on b directly (what super.update() runs);
\* it returns whether it integrated
baseUpdate(b) ==
  /\ \E H \in {BodyUpdate(Heap, b)} : WriteHeap(H)
  /\ op' = Op("Body.prototype.update", 0, b, 0, IF Integrates(b) THEN "true" ELSE "false")
  /\ UNCHANGED <<worldVars, bworld, propVars, calls, removed>>

\* Body.edges(), called directly; without a World it throws
edges(b) ==
  /\ bworld[b] # NoWorld
  /\ \E H \in {BodyEdges(Heap, b)} : WriteHeap(H)
  /\ op' = Op("edges", 0, b, 0, "undefined")
  /\ UNCHANGED <<worldVars, bworld, propVars, calls, removed>>

\* Body.applyForce(force)
applyForce(b, force) ==
  /\ \E H \in {BodyApplyForce(Heap, b, force)} : WriteHeap(H)
  /\ op' = Op("applyForce", 0, b, 0, "this")
  /\ UNCHANGED <<worldVars, bworld, propVars, calls, removed>>

\* Body.posX(x): the setter writes _pos.x and calls cbChangePos, which only
\* rebuilds the path of a body in Path mode
posX(b, x) ==
  /\ pos' = [pos EXCEPT ![b].x = x]
  /\ path' = [path EXCEPT ![b] = CbChangePos(b, pos'[b], @)]
  /\ op' = Op("posX", 0, b, 0, "this")
  /\ UNCHANGED <<worldVars, bworld, vel, acc, bb, propVars, calls, removed>>

\* Body.posY(y)
posY(b, y) ==
  /\ pos' = [pos EXCEPT ![b].y = y]
  /\ path' = [path EXCEPT ![b] = CbChangePos(b, pos'[b], @)]
  /\ op' = Op("posY", 0, b, 0, "this")
  /\ UNCHANGED <<worldVars, bworld, vel, acc, bb, propVars, calls, removed>>

\* Body.pos(vector)
posSet(b, vector) ==
  /\ pos' = [pos EXCEPT ![b] = vector]
  /\ path' = [path EXCEPT ![b] = CbChangePos(b, pos'[b], @)]
  /\ op' = Op("pos", 0, b, 0, "this")
  /\ UNCHANGED <<worldVars, bworld, vel, acc, bb, propVars, calls, removed>>

\* body.static = value
setStatic(b, value) ==
  /\ static' = [static EXCEPT ![b] = value]
  /\ op' = Op("static", 0, b, 0, "undefined")
  /\ UNCHANGED <<worldVars, bworld, pos, vel, acc, bb, mass, cr, mu, solid, cbOnUpdate,
                 mode, bw, bh, path, oPath, calls, removed>>

\* body.cbOnUpdate = () => value
setCbOnUpdate(b, value) ==
  /\ cbOnUpdate' = [cbOnUpdate EXCEPT ![b] = value]
  /\ op' = Op("cbOnUpdate", 0, b, 0, "undefined")
  /\ UNCHANGED <<worldVars, bworld, pos, vel, acc, bb, mass, cr, mu, static, solid,
                 mode, bw, bh, path, oPath, calls, removed>>

\* The clamp without its first test: a negative value is stored as it is.
ClampCoefficientUpper(val) ==
  IF NumLt(I(1), val) \/ ~isFinite(val) \/ isNaN(val) THEN I(1) ELSE val

\* The value coefficientOfRestitution(val) and coefficientOfFriction(val) store:
\* if (val < 0) val = 0; else if (val > 1 || !isFinite(val) || isNaN(val)) val = 1;
ClampCoefficient(val) ==
  IF NumLt(val, I(0)) THEN I(0)
  ELSE IF NumLt(I(1), val) \/ ~isFinite(val) \/ isNaN(val) THEN I(1)
  ELSE val

\* Body.coefficientOfRestitution(val): the getter when val is undefined
coefficientOfRestitution(b, val) ==
  /\ cr' = IF val = Undefined THEN cr ELSE [cr EXCEPT ![b] = ClampCoefficient(val)]
  /\ op' = [Op("coefficientOfRestitution", 0, b, 0,
               IF val = Undefined THEN "_cr" ELSE "this") EXCEPT !.arg = val]
  /\ UNCHANGED <<worldVars, bworld, pos, vel, acc, bb, mass, mu, static, solid,
                 cbOnUpdate, mode, bw, bh, path, oPath, calls, removed>>

\* Body.coefficientOfFriction(val)
coefficientOfFriction(b, val) ==
  /\ mu' = IF val = Undefined THEN mu ELSE [mu EXCEPT ![b] = ClampCoefficient(val)]
  /\ op' = [Op("coefficientOfFriction", 0, b, 0,
               IF val = Undefined THEN "mu" ELSE "this") EXCEPT !.arg = val]
  /\ UNCHANGED <<worldVars, bworld, pos, vel, acc, bb, mass, cr, static, solid,
                 cbOnUpdate, mode, bw, bh, path, oPath, calls, removed>>

\* The first argument null: setPolygon(null) only switches the mode.
NullVertices == <<<<>>>>

\* DrawableBody.setPolygon(...vertices)
setPolygon(b, vertices) ==
  /\ mode' = [mode EXCEPT ![b] = "Path"]
  /\ IF vertices # <<>> /\ vertices[1] = <<>>
     THEN UNCHANGED <<path, oPath, bb>>
     ELSE /\ path' = [path EXCEPT ![b] = vertices]
          /\ oPath' = [oPath EXCEPT ![b] =
                         [i \in 1 .. Len(vertices) |->
                            <<RSub(vertices[i][1], pos[b].x), RSub(vertices[i][2], pos[b].y)>>]]
          /\ bb' = [bb EXCEPT ![b] = BoundingBox("Path", pos[b], bw[b], bh[b], vertices)]
  /\ op' = Op("setPolygon", 0, b, 0, "this")
  /\ UNCHANGED <<worldVars, bworld, pos, vel, acc, mass, cr, mu, static, solid,
                 cbOnUpdate, bw, bh, calls, removed>>

Tick(max) == steps < max /\ steps' = steps + 1 /\ UNCHANGED forecast

\* --------------------------------------------------- initial states

\* new World(): doCollisions = true, no bodies.  The edge mode and gravity are
\* the ones the caller sets up before the first step.
InitWorlds(modes, gravities) ==
  /\ bodies = [w \in Worlds |-> <<>>]
  /\ edgeMode \in [Worlds -> modes]
  /\ G \in [Worlds -> gravities]
  /\ doCollisions = [w \in Worlds |-> TRUE]

\* new DrawableBody(x, y, w, h): the fields the constructor sets.
InitDefaults ==
  /\ bworld = [b \in Bodies |-> NoWorld]
  /\ acc = [b \in Bodies |-> ZeroVec]
  /\ cbOnUpdate = [b \in Bodies |-> TRUE]
  /\ mu = [b \in Bodies |-> I(0)]
  /\ path = [b \in Bodies |-> <<>>]
  /\ oPath = [b \in Bodies |-> <<>>]
  /\ op = Op("new", 0, 0, 0, "this")
  /\ calls = <<>>
  /\ removed = {}
  /\ steps = 0
  /\ forecast = NoForecast

\* ------------------------------------------- SpecCollide: Body.collide

ThePair == {1, 2}
CollideVels   == {IVec(0, 0), IVec(2, 0), IVec(-2, 0), IVec(1, -1)}
CollideMasses == {I(1), I(2), I(3)}
CollideCrs    == {I(0), Rat(4, 5), I(1)}

\* Two bodies configured by their setters; every other body as constructed.
InitCollide ==
  /\ InitWorlds({"None"}, {NullG})
  /\ InitDefaults
  /\ pos = [b \in Bodies |-> ZeroVec]
  /\ \E v \in [ThePair -> CollideVels] :
       vel = [b \in Bodies |-> IF b \in ThePair THEN v[b] ELSE ZeroVec]
  /\ \E m \in [ThePair -> CollideMasses] :
       mass = [b \in Bodies |-> IF b \in ThePair THEN m[b] ELSE I(1)]
  /\ \E e \in [ThePair -> CollideCrs] :
       cr = [b \in Bodies |-> IF b \in ThePair THEN e[b] ELSE I(1)]
  /\ \E f \in [ThePair -> BOOLEAN] :
       static = [b \in Bodies |-> IF b \in ThePair THEN f[b] ELSE FALSE]
  /\ \E f \in [ThePair -> BOOLEAN] :
       solid = [b \in Bodies |-> IF b \in ThePair THEN f[b] ELSE TRUE]
  /\ mode = [b \in Bodies |-> "Rectangle"]
  /\ bw = [b \in Bodies |-> I(1)]
  /\ bh = [b \in Bodies |-> I(1)]
  /\ bb = [b \in Bodies |-> CalcBoundingBox(b, pos[b])]

NextCollide ==
  \E a \in ThePair, b \in ThePair : collide(a, b) /\ Tick(MaxCollides)

SpecCollide == InitCollide /\ [][NextCollide]_vars

\* The default gravity of a World: createVector(0, 0.1).
DefaultG == Vec(I(0), Rat(1, 10))

\* ----------------------------------- Spec: the simulation step of a World

\* What a body of the scene is: its velocity, restitution and flags.
StepKinds ==
  { [vel |-> IVec(1, 0),  cr |-> I(1),      static |-> FALSE, solid |-> TRUE],
    [vel |-> IVec(-1, 1), cr |-> Rat(1, 2), static |-> FALSE, solid |-> TRUE],
    [vel |-> IVec(0, 0),  cr |-> I(1),      static |-> FALSE, solid |-> TRUE],
    [vel |-> IVec(0, 0),  cr |-> I(1),      static |-> TRUE,  solid |-> TRUE],
    [vel |-> IVec(-1, 0), cr |-> Rat(1, 2), static |-> FALSE, solid |-> FALSE] }
\* Where the bodies start: all on one spot, along the diagonal, or in two groups
\* that do not touch.
StepPositions ==
  { [b \in Bodies |-> IVec(1, 1)],
    [b \in Bodies |-> IVec(b, b)],
    [b \in Bodies |-> IF b % 2 = 1 THEN IVec(0, 1) ELSE IVec(3, 4)] }
StepModes ==
  { [b \in Bodies |-> "Rectangle"],
    [b \in Bodies |-> IF b = 1 THEN "Ellipse" ELSE IF b = 3 THEN "Point" ELSE "Rectangle"] }

\* The scene a setup() builds: World 1 with its edge mode and gravity set, and every
\* body configured by its setters and added to World 1 in order.
Init ==
  /\ bodies = [w \in Worlds |-> IF w = 1 THEN [i \in 1 .. NBodies |-> i] ELSE <<>>]
  /\ edgeMode \in [Worlds -> {"None", "Bounce"}]
  /\ G \in [Worlds -> {NullG, <<DefaultG>>}]
  /\ \A w \in Worlds : edgeMode[w] = edgeMode[1] /\ G[w] = G[1]
  /\ doCollisions = [w \in Worlds |-> TRUE]
  /\ bworld = [b \in Bodies |-> 1]
  /\ pos \in StepPositions
  /\ \E k \in [Bodies -> StepKinds] :
       /\ vel = [b \in Bodies |-> k[b].vel]
       /\ cr = [b \in Bodies |-> k[b].cr]
       /\ static = [b \in Bodies |-> k[b].static]
       /\ solid = [b \in Bodies |-> k[b].solid]
  /\ acc = [b \in Bodies |-> ZeroVec]
  /\ mass = [b \in Bodies |-> IF b % 2 = 1 THEN I(1) ELSE I(3)]
  /\ cbOnUpdate = [b \in Bodies |-> TRUE]
  /\ mu = [b \in Bodies |-> I(0)]
  /\ path = [b \in Bodies |-> <<>>]
  /\ oPath = [b \in Bodies |-> <<>>]
  /\ mode \in StepModes
  /\ bw = [b \in Bodies |-> I(2)]
  /\ bh = [b \in Bodies |-> I(2)]
  /\ bb = [b \in Bodies |-> CalcBoundingBox(b, pos[b])]
  /\ op = Op("new", 0, 0, 0, "this")
  /\ calls = <<>>
  /\ removed = {}
  /\ steps = 0
  /\ forecast = NoForecast

Next ==
  \E w \in Worlds : Len(bodies[w]) > 0 /\ update(w) /\ Tick(MaxSteps)

Spec == Init /\ [][Next]_vars

\* ------------------------- SpecWorld: addBody, remove and update of Worlds

\* Bodies as constructed, 1 x 1 rectangles apart from each other, each given the
\* velocity (1, 0); Worlds as constructed.
InitWorld ==
  /\ InitWorlds({"None"}, {<<DefaultG>>})
  /\ InitDefaults
  /\ pos = [b \in Bodies |-> IVec(0, 2 * b)]
  /\ vel = [b \in Bodies |-> IVec(1, 0)]
  /\ mass = [b \in Bodies |-> I(1)]
  /\ cr = [b \in Bodies |-> I(1)]
  /\ static = [b \in Bodies |-> FALSE]
  /\ solid = [b \in Bodies |-> TRUE]
  /\ mode = [b \in Bodies |-> "Rectangle"]
  /\ bw = [b \in Bodies |-> I(1)]
  /\ bh = [b \in Bodies |-> I(1)]
  /\ bb = [b \in Bodies |-> CalcBoundingBox(b, pos[b])]

NextWorld ==
  \/ \E w \in Worlds, b \in Bodies : remove(w, b) /\ Tick(MaxWorldOps)
  \/ \E w \in Worlds, b \in Bodies : addBody(w, b) /\ Tick(MaxWorldOps)
  \/ \E w \in Worlds : update(w) /\ Tick(MaxWorldOps)

SpecWorld == InitWorld /\ [][NextWorld]_vars

\* ------------------------------- SpecBody: the operations of one body

TheBody == 1
BodyPositions == {IVec(0, 0), IVec(WorldSize, 2)}
BodyVels      == {IVec(1, 0), IVec(-1, 2)}
BodyForces    == {IVec(0, 1), IVec(2, 0)}
BodyOutside   == {I(-1), I(WorldSize + 1)}

\* One body, configured by its setters and added to World 1, whose edge mode the
\* caller has set; every other body as constructed.
InitBody ==
  /\ bodies = [w \in Worlds |-> IF w = 1 THEN <<TheBody>> ELSE <<>>]
  /\ edgeMode \in [Worlds -> EdgeModes]
  /\ \A w \in Worlds : edgeMode[w] = edgeMode[1]
  /\ G = [w \in Worlds |-> <<DefaultG>>]
  /\ doCollisions = [w \in Worlds |-> TRUE]
  /\ bworld = [b \in Bodies |-> IF b = TheBody THEN 1 ELSE NoWorld]
  /\ \E p \in BodyPositions : pos = [b \in Bodies |-> IF b = TheBody THEN p ELSE ZeroVec]
  /\ \E v \in BodyVels : vel = [b \in Bodies |-> IF b = TheBody THEN v ELSE ZeroVec]
  /\ acc = [b \in Bodies |-> ZeroVec]
  /\ mass = [b \in Bodies |-> IF b = TheBody THEN I(2) ELSE I(1)]
  /\ cr = [b \in Bodies |-> I(1)]
  /\ static = [b \in Bodies |-> FALSE]
  /\ solid = [b \in Bodies |-> TRUE]
  /\ cbOnUpdate = [b \in Bodies |-> TRUE]
  /\ mu = [b \in Bodies |-> I(0)]
  /\ path = [b \in Bodies |-> <<>>]
  /\ oPath = [b \in Bodies |-> <<>>]
  /\ \E m \in DrawModes : mode = [b \in Bodies |-> IF b = TheBody THEN m ELSE "Rectangle"]
  /\ bw = [b \in Bodies |-> I(1)]
  /\ bh = [b \in Bodies |-> I(1)]
  /\ bb = [b \in Bodies |-> CalcBoundingBox(b, pos[b])]
  /\ op = Op("new", 0, 0, 0, "this")
  /\ calls = <<>>
  /\ removed = {}
  /\ steps = 0
  /\ forecast = NoForecast

NextBody ==
  \/ bodyUpdate(TheBody) /\ Tick(MaxBodyOps)
  \/ baseUpdate(TheBody) /\ Tick(MaxBodyOps)
  \/ edges(TheBody) /\ Tick(MaxBodyOps)
  \/ \E f \in BodyForces : applyForce(TheBody, f) /\ Tick(MaxBodyOps)
  \/ \E x \in BodyOutside : posX(TheBody, x) /\ Tick(MaxBodyOps)
  \/ \E y \in BodyOutside : posY(TheBody, y) /\ Tick(MaxBodyOps)
  \/ \E p \in BodyPositions : posSet(TheBody, p) /\ Tick(MaxBodyOps)
  \/ setStatic(TheBody, ~static[TheBody]) /\ Tick(MaxBodyOps)
  \/ setCbOnUpdate(TheBody, ~cbOnUpdate[TheBody]) /\ Tick(MaxBodyOps)

SpecBody == InitBody /\ [][NextBody]_vars

\* ------------------- SpecCoefficient: the two coefficient setters of a body

CoefficientInputs ==
  { I(-2), Rat(-1, 2), I(0), Rat(1, 4), Rat(1, 2), I(1), Rat(3, 2), I(2),
    NaN, PosInfinity, NegInfinity, Undefined }

\* Bodies and Worlds as constructed: 1 x 1 rectangles at the origin.
InitCoefficient ==
  /\ InitWorlds({"None"}, {<<DefaultG>>})
  /\ InitDefaults
  /\ pos = [b \in Bodies |-> ZeroVec]
  /\ vel = [b \in Bodies |-> ZeroVec]
  /\ mass = [b \in Bodies |-> I(1)]
  /\ cr = [b \in Bodies |-> I(1)]
  /\ static = [b \in Bodies |-> FALSE]
  /\ solid = [b \in Bodies |-> TRUE]
  /\ mode = [b \in Bodies |-> "Rectangle"]
  /\ bw = [b \in Bodies |-> I(1)]
  /\ bh = [b \in Bodies |-> I(1)]
  /\ bb = [b \in Bodies |-> CalcBoundingBox(b, pos[b])]

NextCoefficient ==
  \/ \E val \in CoefficientInputs :
       coefficientOfRestitution(TheBody, val) /\ Tick(MaxCoefficientCalls)
  \/ \E val \in CoefficientInputs :
       coefficientOfFriction(TheBody, val) /\ Tick(MaxCoefficientCalls)

SpecCoefficient == InitCoefficient /\ [][NextCoefficient]_vars

\* -------------------------- SpecShape: the shape mutators of one body

PolygonInputs ==
  { <<<<I(0), I(0)>>, <<I(2), I(0)>>, <<I(0), I(2)>>>>,
    <<<<I(1), I(1)>>, <<I(3), I(2)>>, <<I(2), I(4)>>, <<I(0), I(3)>>>>,
    NullVertices }

\* One body in the drawing mode its setup chose, added to World 1.
InitShape ==
  /\ InitWorlds({"None"}, {<<DefaultG>>})
  /\ InitDefaults
  /\ \E p \in BodyPositions : pos = [b \in Bodies |-> IF b = TheBody THEN p ELSE ZeroVec]
  /\ vel = [b \in Bodies |-> IVec(1, 0)]
  /\ mass = [b \in Bodies |-> I(1)]
  /\ cr = [b \in Bodies |-> I(1)]
  /\ static = [b \in Bodies |-> FALSE]
  /\ solid = [b \in Bodies |-> TRUE]
  /\ \E m \in DrawModes : mode = [b \in Bodies |-> IF b = TheBody THEN m ELSE "Rectangle"]
  /\ bw = [b \in Bodies |-> I(1)]
  /\ bh = [b \in Bodies |-> I(1)]
  /\ bb = [b \in Bodies |-> CalcBoundingBox(b, pos[b])]

NextShape ==
  \/ \E vertices \in PolygonInputs : setPolygon(TheBody, vertices) /\ Tick(MaxShapeOps)
  \/ \E p \in BodyPositions : posSet(TheBody, p) /\ Tick(MaxShapeOps)
  \/ bodyUpdate(TheBody) /\ Tick(MaxShapeOps)

SpecShape == InitShape /\ [][NextShape]_vars

\* ------------- SpecFriction: friction coefficients set between the steps

\* The values coefficientOfFriction is called with.
FrictionValues == { Rat(1, 2), I(1) }

\* The scenes of Spec in which the bodies start on one spot as rectangles, the
\* first one moving to the right, in a World with gravity and bouncing edges, every
\* friction coefficient 0 as constructed.
InitFriction ==
  /\ Init
  /\ vel[1] = IVec(1, 0)
  /\ edgeMode[1] = "Bounce"
  /\ G[1] = <<DefaultG>>
  /\ pos = [b \in Bodies |-> IVec(1, 1)]
  /\ mode = [b \in Bodies |-> "Rectangle"]

\* One operation that is World.update of World w: the step uses up the first
\* entry of the forecast for w.
TickUpdate(max, w) ==
  /\ steps < max /\ steps' = steps + 1
  /\ forecast' = [v \in Worlds |-> IF v = w /\ forecast[w] # <<>>
                                    THEN Tail(forecast[w]) ELSE <<>>]

\* One operation that is a coefficientOfFriction call: the forecast is made from
\* the state before the call, and kept if the operation before was such a call too.
TickFriction(max) ==
  /\ steps < max /\ steps' = steps + 1
  /\ forecast' = IF op.name = "coefficientOfFriction" THEN forecast
                 ELSE [w \in Worlds |-> UpdateRun(Heap, w, MaxSteps)]

NextFriction ==
  \/ \E w \in Worlds : Len(bodies[w]) > 0 /\ update(w) /\ TickUpdate(MaxFrictionOps, w)
  \/ \E b \in Bodies, val \in FrictionValues :
       coefficientOfFriction(b, val) /\ TickFriction(MaxFrictionOps)

SpecFriction == InitFriction /\ [][NextFriction]_vars

\* --------------- SpecEdges: the simulation step with bodies at and past the edges

\* Where the bodies start: all on one spot inside the World, or one past the left
\* edge, one on the bottom right corner and one past it.
EdgePositions ==
  { [b \in Bodies |-> IVec(WorldX + 1, WorldY + 1)],
    [b \in Bodies |-> IF b % 3 = 1 THEN IVec(WorldX - 1, WorldY + 2)
                      ELSE IF b % 3 = 2
                      THEN IVec(WorldX + WorldSize, WorldY + WorldSize)
                      ELSE IVec(WorldX + WorldSize + 1, WorldY + WorldSize + 1)] }

\* The scene a setup() builds: World 1 with its edge mode and gravity set, and every
\* body configured by its setters and added to World 1 in order.
InitEdges ==
  /\ bodies = [w \in Worlds |-> IF w = 1 THEN [i \in 1 .. NBodies |-> i] ELSE <<>>]
  /\ \E m \in EdgeModes : edgeMode = [w \in Worlds |-> m]
  /\ G = [w \in Worlds |-> <<DefaultG>>]
  /\ doCollisions = [w \in Worlds |-> TRUE]
  /\ bworld = [b \in Bodies |-> 1]
  /\ pos \in EdgePositions
  /\ \E k \in [Bodies -> StepKinds] :
       /\ vel = [b \in Bodies |-> k[b].vel]
       /\ cr = [b \in Bodies |-> k[b].cr]
       /\ static = [b \in Bodies |-> k[b].static]
       /\ solid = [b \in Bodies |-> k[b].solid]
  /\ mass = [b \in Bodies |-> IF b % 2 = 1 THEN I(1) ELSE I(3)]
  /\ mode = [b \in Bodies |-> "Rectangle"]
  /\ bw = [b \in Bodies |-> I(2)]
  /\ bh = [b \in Bodies |-> I(2)]
  /\ bb = [b \in Bodies |-> CalcBoundingBox(b, pos[b])]
  /\ acc = [b \in Bodies |-> ZeroVec]
  /\ cbOnUpdate = [b \in Bodies |-> TRUE]
  /\ mu = [b \in Bodies |-> I(0)]
  /\ path = [b \in Bodies |-> <<>>]
  /\ oPath = [b \in Bodies |-> <<>>]
  /\ op = Op("new", 0, 0, 0, "this")
  /\ calls = <<>>
  /\ removed = {}
  /\ steps = 0
  /\ forecast = NoForecast

NextEdges ==
  \E w \in Worlds : Len(bodies[w]) > 0 /\ update(w) /\ Tick(MaxSteps)

SpecEdges == InitEdges /\ [][NextEdges]_vars

\* =====================================================================
\* Claims
\* =====================================================================

\* A step that is the call Body.collide(a, b).
IsCollide(a, b) == op'.name = "collide" /\ op'.a = a /\ op'.b = b

\* C1: Body.collide(a, b) on a solid pair with exactly one static body leaves the
\* static body's velocity unchanged and sets the other body's velocity to minus its
\* own restitution coefficient times its own velocity before the call, whichever
\* argument is the static one.
C1_StaticCollision ==
  [][\A a \in Bodies, b \in Bodies :
       (IsCollide(a, b) /\ solid[a] /\ solid[b] /\ static[a] # static[b]) =>
         LET s == IF static[a] THEN a ELSE b
             d == IF static[a] THEN b ELSE a
         IN  /\ vel'[s] = vel[s]
             /\ vel'[d] = VMult(vel[d], RNeg(cr[d]))]_vars

\* C10: for two solid non-static bodies Body.collide(a, b) sets
\*   a.vel = [e_a*mb*(ub - ua) + ma*ua + mb*ub] / (ma + mb)
\*   b.vel = [e_b*ma*(ua - ub) + ma*ua + mb*ub] / (ma + mb)
\* with ua, ub both the velocities from before the call.
C10_Formula(e, mOther, uOther, uSelf, ma, ua, mb, ub) ==
  VDiv(VAdd(VAdd(VMult(VSub(uOther, uSelf), RMul(e, mOther)), VMult(ua, ma)),
            VMult(ub, mb)),
       RAdd(ma, mb))

C10_DynamicCollision ==
  [][\A a \in Bodies, b \in Bodies :
       (IsCollide(a, b) /\ solid[a] /\ solid[b] /\ ~static[a] /\ ~static[b]) =>
         /\ vel'[a] = C10_Formula(cr[a], mass[b], vel[b], vel[a],
                                  mass[a], vel[a], mass[b], vel[b])
         /\ vel'[b] = C10_Formula(cr[b], mass[a], vel[a], vel[b],
                                  mass[a], vel[a], mass[b], vel[b])]_vars

\* Body.collide has run on two solid non-static bodies of different mass with an
\* inelastic first body, and the two velocities it left differ.
C10_Witness ==
  /\ op.name = "collide"
  /\ solid[op.a] /\ solid[op.b] /\ ~static[op.a] /\ ~static[op.b]
  /\ mass[op.a] # mass[op.b]
  /\ cr[op.a] = Rat(4, 5)
  /\ vel[op.a] # vel[op.b]

\* The Worlds whose bodies array holds body b.
Owners(b) == {w \in Worlds : b \in Range(bodies[w])}

\* C3: after any sequence of addBody and remove calls a body's _world is exactly
\* the World whose bodies array holds it, and null when no World holds it.
C3_BackReference ==
  \A b \in Bodies :
    IF Owners(b) = {} THEN bworld[b] = NoWorld ELSE Owners(b) = {bworld[b]}

\* C4: after any sequence of addBody and remove calls every body is in the bodies
\* array of at most one World.
C4_SingleOwner == \A b \in Bodies : Cardinality(Owners(b)) <= 1

\* A call of DrawableBody.collision or Body.collide on body b is in the log.
Called(log, b) == \E i \in 1 .. Len(log) : log[i].a = b \/ log[i].b = b

\* C5: once World.remove(body) has returned true, no later update of that World
\* changes the body's position, velocity or acceleration or tests it for collision;
\* remove of a body that is not in the array returns false and leaves it unchanged.
C5_RemovedNotStepped ==
  [][/\ \A w \in Worlds, b \in Bodies :
          (<<w, b>> \in removed /\ op'.name = "update" /\ op'.w = w) =>
            /\ pos'[b] = pos[b] /\ vel'[b] = vel[b] /\ acc'[b] = acc[b]
            /\ ~Called(calls', b)
     /\ \A w \in Worlds, b \in Bodies :
          (op'.name = "remove" /\ op'.w = w /\ op'.a = b /\ b \notin Range(bodies[w])) =>
            op'.ret = "false" /\ bodies' = bodies]_vars

\* C2: after any sequence of update(), edges() and position-setter calls the
\* bounding box is the box derived from the body's current position, size and shape.
C2_BoundingBoxCurrent == \A b \in Bodies : bb[b] = CalcBoundingBox(b, pos[b])

\* A step that is the call b.update().
IsBodyUpdate(b) == op'.name = "Body.update" /\ op'.a = b

\* C9 as claimed: immediately after update() returns the acceleration is (0, 0),
\* for every body, static or not.
C9_AccZeroAfterUpdate ==
  [][\A b \in Bodies : IsBodyUpdate(b) => acc'[b] = ZeroVec]_vars

\* C9 as amended: after update() returns the acceleration is (0, 0) if the body is
\* not static or its update hook returned false; update() of a static body with
\* the default hook leaves the acceleration as it was.
C9_AccAfterUpdate ==
  [][\A b \in Bodies :
       IsBodyUpdate(b) =>
         IF ~static[b] \/ cbOnUpdate[b] = FALSE
         THEN acc'[b] = ZeroVec
         ELSE acc'[b] = acc[b]]_vars

\* update() has just run on a non-static body whose velocity it changed by an
\* acceleration that applyForce had accumulated, and the acceleration is zero.
C9_Witness ==
  /\ op.name = "Body.update"
  /\ ~static[op.a]
  /\ vel[op.a] \notin BodyVels
  /\ acc[op.a] = ZeroVec

\* The indices of the log entries that are calls of fn on the unordered pair {a, b}.
CallsOn(fn, a, b) ==
  {i \in 1 .. Len(calls) :
     /\ calls[i].fn = fn
     /\ (calls[i].a = a /\ calls[i].b = b) \/ (calls[i].a = b /\ calls[i].b = a)}

Collides == {i \in 1 .. Len(calls) : calls[i].fn = "collide"}

\* C6: within one World.update Body.collide is invoked at most once for each
\* unordered pair of bodies, so n bodies give at most n(n-1)/2 resolutions in a step.
C6_OncePerPair ==
  /\ \A a \in Bodies, b \in Bodies : Cardinality(CallsOn("collide", a, b)) <= 1
  /\ 2 * Cardinality(Collides) <= NBodies * (NBodies - 1)

\* A World.update has resolved three different pairs, the later ones with
\* velocities that the earlier resolutions had changed.
C6_Witness ==
  /\ op.name = "update"
  /\ \A b \in 1 .. 3 : solid[b]
  /\ \A a \in 1 .. 3, b \in 1 .. 3 : a < b => Cardinality(CallsOn("collide", a, b)) = 1
  /\ \A i \in Collides : calls[i].after # calls[i].before
  /\ \E i \in Collides, j \in Collides :
       /\ i < j
       /\ calls[i].a = calls[j].a
       /\ calls[j].before[1] = calls[i].after[1]
       /\ calls[j].before[1] # calls[i].before[1]

\* C7: in the collision sweep DrawableBody.collision is never evaluated with a
\* non-solid body as either argument.
C7_DetectionOnlySolid ==
  \A i \in 1 .. Len(calls) :
    calls[i].fn = "collision" => solid[calls[i].a] /\ solid[calls[i].b]

\* What the first loop of World.update leaves of a body that is integrated, with
\* position p and velocity v after the integration: the edge policy of the World.
C8_EdgeAxis(m, p, v, lo, hi) ==
  IF m = "None" \/ (RLe(lo, p) /\ RLe(p, hi)) THEN <<p, v>>
  ELSE IF m = "Hold" THEN <<IF RLt(p, lo) THEN lo ELSE hi, v>>
  ELSE IF m = "Wrap" THEN <<IF RLt(p, lo) THEN hi ELSE lo, v>>
  ELSE <<IF RLt(p, lo) THEN lo ELSE hi, RNeg(v)>>

C8_Stepped(w, b) ==
  LET g == IF G[w] = NullG THEN ZeroVec ELSE G[w][1]
      v == VAdd(VAdd(vel[b], acc[b]), g)
      p == VAdd(pos[b], v)
      ex == C8_EdgeAxis(edgeMode[w], p.x, v.x, WMinX, WMaxX)
      ey == C8_EdgeAxis(edgeMode[w], p.y, v.y, WMinY, WMaxY)
  IN  [pos |-> Vec(ex[1], ey[1]), vel |-> Vec(ex[2], ey[2])]

\* C8: during World.update the collision sweep changes neither the velocity of a
\* non-solid body nor the velocity of any body on account of a non-solid body (a
\* Body.collide call on a pair with a non-solid body changes no velocity), while a
\* non-solid body is still integrated and edge-handled in that step.
C8_NonSolidNoResponse ==
  [][\A w \in Worlds :
       (op'.name = "update" /\ op'.w = w) =>
         /\ \A i \in 1 .. Len(calls') :
              (calls'[i].fn = "collide" /\ ~(solid[calls'[i].a] /\ solid[calls'[i].b]))
                => calls'[i].after = calls'[i].before
         /\ \A b \in Range(bodies[w]) :
              (~solid[b] /\ ~static[b] /\ bworld[b] = w) =>
                /\ vel'[b] = C8_Stepped(w, b).vel
                /\ pos'[b] = C8_Stepped(w, b).pos
                /\ acc'[b] = ZeroVec]_vars

\* A World.update has called Body.collide on a solid body and a moving non-solid
\* body that overlapped it.
C8_Witness ==
  /\ op.name = "update"
  /\ \E i \in 1 .. Len(calls) :
       /\ calls[i].fn = "collide"
       /\ solid[calls[i].a] /\ ~solid[calls[i].b] /\ ~static[calls[i].b]
       /\ calls[i].before[1] # calls[i].before[2]
       /\ vel[calls[i].b] # ZeroVec

\* The total momentum ma*va + mb*vb of bodies a and b with velocities va and vb.
C11_Momentum(a, va, b, vb) == VAdd(VMult(va, mass[a]), VMult(vb, mass[b]))

C12_IsSetter(b) ==
  /\ op'.name \in {"coefficientOfRestitution", "coefficientOfFriction"}
  /\ op'.a = b
  /\ op'.arg # Undefined

\* The coefficient the setter named in op' stores into, in the state before (cur)
\* and after (new) the call.
C12_Stored(b) ==
  IF op'.name = "coefficientOfRestitution"
  THEN [cur |-> cr[b], new |-> cr'[b]]
  ELSE [cur |-> mu[b], new |-> mu'[b]]

\* What the setters store for the value v, the values counted as infinite being
\* those of the set infinite.
C12_Stores(b, infinite) ==
  LET v == op'.arg
      s == C12_Stored(b)
  IN  /\ NumLt(v, I(0)) => s.new = I(0)
      /\ (NumLt(I(1), v) \/ isNaN(v) \/ v \in infinite) => s.new = I(1)
      /\ (isFinite(v) /\ ~NumLt(v, I(0)) /\ ~NumLt(I(1), v)) => s.new = v
      /\ ~NumLt(s.new, I(0)) /\ ~NumLt(I(1), s.new) /\ isFinite(s.new)
      /\ v = s.cur => s.new = s.cur

C13_IsEdges(b, m) ==
  op'.name = "edges" /\ op'.a = b /\ edgeMode[bworld[b]] = m

\* C13 on one axis: p, v the position and velocity on the axis that left the World
\* (primed: after the call), q, u those on the other axis, whose bounds are qlo, qhi.
C13_Bounced(p, v, pNew, vNew, edge, q, u, qNew, uNew, qlo, qhi) ==
  /\ pNew = edge
  /\ vNew = RNeg(v)
  /\ (RLe(qlo, q) /\ RLe(q, qhi)) => (qNew = q /\ uNew = u)

\* C13: with edgeMode = Bounce, edges() on a body whose x is below the World's left
\* boundary sets x exactly to W.x and negates the x-velocity, and leaves y-position
\* and y-velocity unchanged if y lies within the vertical bounds; likewise for the
\* right, top and bottom boundaries.
C13_BounceEdge ==
  [][\A b \in Bodies :
       C13_IsEdges(b, "Bounce") =>
         LET p == pos[b]
             v == vel[b]
             pN == pos'[b]
             vN == vel'[b]
         IN  /\ RLt(p.x, WMinX) =>
                  C13_Bounced(p.x, v.x, pN.x, vN.x, WMinX, p.y, v.y, pN.y, vN.y, WMinY, WMaxY)
             /\ RLt(WMaxX, p.x) =>
                  C13_Bounced(p.x, v.x, pN.x, vN.x, WMaxX, p.y, v.y, pN.y, vN.y, WMinY, WMaxY)
             /\ RLt(p.y, WMinY) =>
                  C13_Bounced(p.y, v.y, pN.y, vN.y, WMinY, p.x, v.x, pN.x, vN.x, WMinX, WMaxX)
             /\ RLt(WMaxY, p.y) =>
                  C13_Bounced(p.y, v.y, pN.y, vN.y, WMaxY, p.x, v.x, pN.x, vN.x, WMinX, WMaxX)]_vars

\* edges() has run in Bounce mode on the body that started with velocity (-1, 2) and
\* was put left of the World: it is on the left boundary with velocity (1, 2).
C13_Witness ==
  /\ op.name = "edges"
  /\ edgeMode[bworld[op.a]] = "Bounce"
  /\ pos[op.a].x = WMinX
  /\ RLe(WMinY, pos[op.a].y) /\ RLe(pos[op.a].y, WMaxY)
  /\ vel[op.a] = IVec(1, 2)
  /\ steps = 2

\* C14: with edgeMode = Wrap, edges() on a body whose x is above W.x + W.w sets x
\* exactly to W.x, on a body whose x is below W.x sets x to W.x + W.w, and never
\* changes the body's velocity.
C14_WrapEdge ==
  [][\A b \in Bodies :
       C13_IsEdges(b, "Wrap") =>
         /\ RLt(WMaxX, pos[b].x) => pos'[b].x = WMinX
         /\ RLt(pos[b].x, WMinX) => pos'[b].x = WMaxX
         /\ vel'[b] = vel[b]]_vars

\* edges() has run in Wrap mode on a moving body that had been put right of the
\* World: it is on the left boundary.
C14_Witness ==
  /\ op.name = "edges"
  /\ edgeMode[bworld[op.a]] = "Wrap"
  /\ pos[op.a] = Vec(WMinX, I(2))
  /\ vel[op.a] = IVec(-1, 2)
  /\ steps = 2

\* Whether two boxes [pos, w, h] overlap (touching edges count).
C15_Overlap(p, q) ==
  /\ RLe(p.pos.x, RAdd(q.pos.x, q.w)) /\ RLe(q.pos.x, RAdd(p.pos.x, p.w))
  /\ RLe(p.pos.y, RAdd(q.pos.y, q.h)) /\ RLe(q.pos.y, RAdd(p.pos.y, p.h))

\* C15: DrawableBody.collision(a, b) returns false without evaluating a narrow-phase
\* test whenever the stored bounding boxes of a and b do not overlap, and evaluates
\* one only when they overlap.
C15_BroadPhaseFirst ==
  \A i \in 1 .. Len(calls) :
    calls[i].fn = "collision" =>
      LET over == C15_Overlap(calls[i].boxes[1], calls[i].boxes[2])
      IN  /\ ~over => (calls[i].ret = FALSE /\ ~calls[i].narrow)
          /\ calls[i].narrow => over

\* One World.update has called collision on a pair of rectangles whose stored boxes
\* were apart (no shape test, false) and on a pair whose boxes overlapped (tested).
C15_Witness ==
  /\ op.name = "update"
  /\ \E i \in 1 .. Len(calls) :
       /\ calls[i].fn = "collision"
       /\ ~C15_Overlap(calls[i].boxes[1], calls[i].boxes[2])
       /\ ~calls[i].narrow /\ ~calls[i].ret
       /\ mode[calls[i].a] = "Rectangle" /\ mode[calls[i].b] = "Rectangle"
  /\ \E i \in 1 .. Len(calls) :
       /\ calls[i].fn = "collision"
       /\ C15_Overlap(calls[i].boxes[1], calls[i].boxes[2])
       /\ calls[i].narrow /\ calls[i].ret

\* C16: update() returns true ("moved") for every non-static body, also one with zero
\* velocity and zero acceleration, whose position it leaves unchanged, and false for
\* a static body with the default hook; for a DrawableBody as for a base Body.
C16_UpdateReports ==
  [][\A b \in Bodies :
       (op'.name \in {"Body.update", "Body.prototype.update"} /\ op'.a = b) =>
         /\ ~static[b] => op'.ret = "true"
         /\ (static[b] /\ cbOnUpdate[b]) => op'.ret = "false"
         /\ (~static[b] /\ vel[b] = ZeroVec /\ acc[b] = ZeroVec) => pos'[b] = pos[b]]_vars

\* The Body.collide calls of the step just taken that involve body b.
C17_CollidesOf(b) ==
  {i \in 1 .. Len(calls') :
     calls'[i].fn = "collide" /\ (calls'[i].a = b \/ calls'[i].b = b)}

\* The velocity body b had when the first loop of the step just taken was over: the
\* one the first Body.collide call on b found, or the final one if there was none.
C17_IntegratedVel(b) ==
  IF C17_CollidesOf(b) = {} THEN vel'[b]
  ELSE LET i == CHOOSE k \in C17_CollidesOf(b) : \A j \in C17_CollidesOf(b) : k <= j
       IN  IF calls'[i].a = b THEN calls'[i].before[1] ELSE calls'[i].before[2]

C18_IsUpdate(b) ==
  op'.name \in {"Body.update", "Body.prototype.update"} /\ op'.a = b

C19_WrongModeRaises ==
  [][\A b \in Bodies :
       (op'.name = "setPolygon" /\ op'.a = b /\ mode[b] # "Path") =>
         /\ op'.ret = "throws"
         /\ mode'[b] = mode[b]
         /\ path'[b] = path[b]]_vars

\* The scalar product of two vectors.
C20_Dot(u, v) == RAdd(RMul(u.x, v.x), RMul(u.y, v.y))

\* Whether log entry i, a Body.collide call, found its two bodies moving apart: the
\* distance between them was increasing (positions do not change during the sweep).
C20_Separating(i) ==
  RLt(I(0), C20_Dot(VSub(pos[calls[i].a], pos[calls[i].b]),
                    VSub(calls[i].before[1], calls[i].before[2])))

\* C20: the collision sweep invokes Body.collide on an overlapping pair only when the
\* two bodies are moving closer; a pair (of solid bodies) that overlaps but is moving
\* apart is not resolved, in the step that first resolved it or in a later one.
C20_NotWhenSeparating ==
  \A i \in 1 .. Len(calls) :
    (calls[i].fn = "collide" /\ solid[calls[i].a] /\ solid[calls[i].b]) =>
      ~C20_Separating(i)

\* C21: Body.collide(a, b) with both bodies static changes neither body's velocity,
\* whatever velocities the two static bodies hold.
C21_BothStatic ==
  [][\A a \in Bodies, b \in Bodies :
       (IsCollide(a, b) /\ static[a] /\ static[b]) =>
         (vel'[a] = vel[a] /\ vel'[b] = vel[b])]_vars

\* The three phases of the specified order, each over all bodies of World w from
\* index i on: gravity for all, update() for all, edge handling for all.
RECURSIVE C22_GravityFrom(_, _, _)
C22_GravityFrom(H, w, i) ==
  IF i > Len(bodies[w]) THEN H
  ELSE C22_GravityFrom(IF G[w] # NullG
                       THEN BodyApplyForce(H, bodies[w][i],
                                           VMult(G[w][1], mass[bodies[w][i]]))
                       ELSE H,
                       w, i + 1)

RECURSIVE C22_UpdateFrom(_, _, _)
C22_UpdateFrom(H, w, i) ==
  IF i > Len(bodies[w]) THEN H
  ELSE C22_UpdateFrom(DrawableUpdate(H, bodies[w][i]), w, i + 1)

RECURSIVE C22_EdgesFrom(_, _, _)
C22_EdgesFrom(H, w, i) ==
  IF i > Len(bodies[w]) THEN H
  ELSE C22_EdgesFrom(IF edgeMode[w] # "None" THEN BodyEdges(H, bodies[w][i]) ELSE H,
                     w, i + 1)

\* The heap the phase order leaves before the sweep.
C22_Phased(w) == C22_EdgesFrom(C22_UpdateFrom(C22_GravityFrom(Heap, w, 1), w, 1), w, 1)

\* C22: with default hooks the single per-body loop of World.update (gravity, update,
\* edges for the first body, then for the second, ...) leaves every body in the state
\* the phase order (gravity for all, update for all, edges for all) leaves it in, and
\* the sweep starts only when every body has been integrated and edge-handled: each
\* collision test reads the boxes, and the first resolution of a body the velocity,
\* that the completed phases left.
C22_PhaseOrder ==
  [][\A w \in Worlds :
       (op'.name = "update" /\ op'.w = w) =>
         LET P == C22_Phased(w)
             F == SweepFrom([H |-> P, done |-> <<>>, log |-> <<>>], w, 0)
         IN  /\ pos' = F.H.pos /\ vel' = F.H.vel /\ acc' = F.H.acc /\ bb' = F.H.bb
             /\ \A b \in Range(bodies[w]) :
                  /\ pos'[b] = P.pos[b] /\ acc'[b] = P.acc[b] /\ bb'[b] = P.bb[b]
                  /\ C17_IntegratedVel(b) = P.vel[b]
             /\ \A i \in 1 .. Len(calls') :
                  calls'[i].fn = "collision" =>
                    calls'[i].boxes = <<P.bb[calls'[i].a], P.bb[calls'[i].b]>>]_vars

\* A second World.update with gravity and Bounce edges in which one body was sent
\* back from the left boundary and a pair of later bodies was resolved.
C22_Witness ==
  /\ op.name = "update" /\ steps = 2
  /\ G[op.w] = <<DefaultG>> /\ edgeMode[op.w] = "Bounce"
  /\ \E b \in Range(bodies[op.w]) :
       /\ ~static[b] /\ pos[b].x = WMinX /\ RLt(I(0), vel[b].x)
       /\ \E i \in 1 .. Len(calls) :
            /\ calls[i].fn = "collide"
            /\ calls[i].after # calls[i].before
            /\ calls[i].a # b /\ calls[i].b # b
            /\ IndexOf(bodies[op.w], calls[i].b) > IndexOf(bodies[op.w], b)

\* C23: World.update never calls friction() and applies no friction force: two
\* runs that differ only in the bodies' friction coefficients give every body the
\* same position and velocity after any number of World.update calls.  One run
\* is the forecast, made with the coefficients the bodies had before
\* coefficientOfFriction was called; the other is the World.update calls that
\* follow, made with the coefficients set.
C23_FrictionIgnored ==
  [][op'.name = "update" =>
       /\ \A i \in 1 .. Len(calls') : calls'[i].fn \in {"collision", "collide"}
       /\ forecast[op'.w] # <<>> =>
            /\ pos' = forecast[op'.w][1].pos
            /\ vel' = forecast[op'.w][1].vel]_vars

\* C23 happens: a World.update has resolved a collision (it changed a velocity) of
\* a body whose friction coefficient had been set to a value other than 0, the
\* other body of the pair moving.
C23_Witness ==
  /\ op.name = "update"
  /\ steps = MaxFrictionOps
  /\ forecast[op.w] = <<>>
  /\ \E i \in 1 .. Len(calls) :
       /\ calls[i].fn = "collide"
       /\ calls[i].after # calls[i].before
       /\ mu[calls[i].a] # I(0)
       /\ calls[i].after[2] # ZeroVec

\* Position p lies within the bounds of a World, the edges included.
C24_Inside(p) ==
  /\ RLe(WMinX, p.x) /\ RLe(p.x, WMaxX)
  /\ RLe(WMinY, p.y) /\ RLe(p.y, WMaxY)

\* C24: in a World with edge mode Hold, Wrap or Bounce, after every World.update
\* every body of the World, static or not and whatever collisions were resolved,
\* has its position within the World's bounds: x in [W.x, W.x + W.w] and y in
\* [W.y, W.y + W.h].
C24_InsideAfterUpdate ==
  (op.name = "update" /\ edgeMode[op.w] \in {"Hold", "Wrap", "Bounce"}) =>
    \A i \in 1 .. Len(bodies[op.w]) : C24_Inside(pos[bodies[op.w][i]])

\* C24 happens: in a World that wraps, a World.update has resolved a collision and
\* a static body, which only edges() can have moved, sits on the top left corner,
\* where no body starts.
C24_Witness ==
  /\ op.name = "update"
  /\ edgeMode[op.w] = "Wrap"
  /\ \E i \in 1 .. Len(calls) :
       calls[i].fn = "collide" /\ calls[i].after # calls[i].before
  /\ \E i \in 1 .. Len(bodies[op.w]) :
       LET b == bodies[op.w][i]
       IN  static[b] /\ pos[b] = Vec(WMinX, WMinY)

\* C25: the position of a static body in a World is the same after World.update
\* as before it, for every edge mode, every position and every set of other bodies.
C25_StaticStays ==
  [][op'.name = "update" =>
       \A i \in 1 .. Len(bodies[op'.w]) :
         LET b == bodies[op'.w][i]
         IN  static[b] => pos'[b] = pos[b]]_vars

\* C25, restated: the position of a static body in a World is the same after
\* World.update as before it, for every set of other bodies, when the edge mode is
\* None or the body lies within the World's bounds; a static body outside the
\* bounds is moved by edges().
C25_StaticStaysInside ==
  [][op'.name = "update" =>
       \A i \in 1 .. Len(bodies[op'.w]) :
         LET b == bodies[op'.w][i]
         IN  (static[b] /\ (edgeMode[op'.w] = "None" \/ C24_Inside(pos[b])))
               => pos'[b] = pos[b]]_vars

\* C25 happens: in a World that bounces, after the last World.update of a run a
\* static body within the bounds has been in a resolved collision.
C25_Witness ==
  /\ op.name = "update"
  /\ steps = MaxSteps
  /\ edgeMode[op.w] = "Bounce"
  /\ \E i \in 1 .. Len(calls) :
       /\ calls[i].fn = "collide"
       /\ calls[i].after # calls[i].before
       /\ \E b \in {calls[i].a, calls[i].b} : static[b] /\ C24_Inside(pos[b])

====
